---- MODULE Spec2Model ----
(***************************************************************************)
(* Batch job runner, record store and API configuration of the contact     *)
(* discovery server (server/routes.ts, server/storage.ts and the durable   *)
(* DbStorage variant of the record store).                                 *)
(*                                                                         *)
(* Every `await` of the source is a suspension point: one action runs the  *)
(* code from one suspension point to the next.  A store operation takes    *)
(* effect in the action that resumes after its await.  Under MemStorage no *)
(* store operation rejects; under DbStorage every store operation is a     *)
(* network round trip that may reject, leaving the table unchanged.        *)
(***************************************************************************)
EXTENDS Integers, Sequences, FiniteSets, TLC

VARIABLES
    impl,           \* which Record Store is wired in as `storage`
    apiConfigs,     \* api_config rows, in insertion order
    pendingSaves,   \* DbStorage.saveApiConfig calls between UPDATE and INSERT
    nSaves,         \* number of saveApiConfig calls issued so far
    raced,          \* TRUE once two saveApiConfig calls have overlapped
    batchJobs,      \* batch_jobs rows; the id of a job is its index
    emailSearches,  \* email_searches rows, in creation order
    runner,         \* per job: the detached setTimeout closure of routes.ts
    http,           \* the latest response of POST /api/search/batch
    rejected,       \* number of batch submissions answered 400 so far
    failures,       \* store operations that have rejected so far
    cleared,        \* number of DELETE /api/searches requests served so far
    returned        \* what the latest direct call of a Record Store operation returned

vars == <<impl, apiConfigs, pendingSaves, nSaves, raced, batchJobs,
          emailSearches, runner, http, rejected, failures, cleared, returned>>

----------------------------------------------------------------------------
(* Bounds of the model *)

\* Total number of inputs the environment gives the server in one behaviour:
\* saveApiConfig calls, submitted contacts, rejected batch submissions, bulk
\* clears and store operations that reject.
MaxEvents == 3

----------------------------------------------------------------------------
(* Values *)

null == "null"
undefined == "undefined"

ApiKeys == {"A", "B"}

\* isActive of an InsertApiConfig: text with a default, so an optional string
IsActiveInputs == {undefined, "true", "false"}

InsertApiConfigs == [apiKey : ApiKeys, isActive : IsActiveInputs]

\* One element of the `contacts` array of a request body.  kind "null" is the
\* JSON value null; a field is a non-empty string, "" or undefined (missing).
validContact == [kind |-> "object", firstName |-> "John", lastName |-> "Doe", company |-> "Acme"]
emptyContact == [kind |-> "object", firstName |-> "", lastName |-> "", company |-> ""]
nullContact == [kind |-> "null", firstName |-> undefined, lastName |-> undefined, company |-> undefined]

ContactPool == {validContact, emptyContact, nullContact}

RECURSIVE SeqsUpTo(_, _)
SeqsUpTo(S, n) ==
    IF n = 0 THEN {<<>>}
    ELSE LET shorter == SeqsUpTo(S, n - 1)
         IN  shorter \cup {Append(s, x) : s \in {t \in shorter : Len(t) = n - 1}, x \in S}

\* What the server can observe of one outbound fetch of the Lookup Client:
\* fetch rejects (a network exception) or resolves with a response, whose
\* body parses as JSON with an email, parses without one, or does not parse.
\* threw: "Error" for an Error (message is its message), "value" for a thrown
\* value that is no Error, "no" when fetch resolved.
Fetch(threw, message, status, statusText, body) ==
    [threw |-> threw, message |-> message, status |-> status,
     statusText |-> statusText, body |-> body]

Fetched(transport) ==
    CASE transport = "ok_email"    -> Fetch("no", "", 200, "OK", "email")
      [] transport = "ok_noemail"  -> Fetch("no", "", 200, "OK", "noemail")
      [] transport = "ok_badjson"  -> Fetch("no", "", 200, "OK", "unparsable")
      [] transport = "http_401"    -> Fetch("no", "", 401, "Unauthorized", "noemail")
      [] transport = "http_402"    -> Fetch("no", "", 402, "Payment Required", "noemail")
      [] transport = "http_429"    -> Fetch("no", "", 429, "Too Many Requests", "noemail")
      [] transport = "http_500"    -> Fetch("no", "", 500, "Internal Server Error", "email")
      [] transport = "throw_error" -> Fetch("Error", "fetch failed", 0, "", "noemail")
      [] transport = "throw_empty" -> Fetch("Error", "", 0, "", "noemail")
      [] transport = "throw_value" -> Fetch("value", "", 0, "", "noemail")

\* every outcome of the fetch that the Lookup Client tells apart
AllTransports ==
    {"ok_email", "ok_noemail", "ok_badjson", "http_401", "http_402", "http_429",
     "http_500", "throw_error", "throw_empty", "throw_value"}

\* the outcomes the batch runner tells apart: an email, an error message, an
\* empty error message
Transports == {"ok_email", "ok_noemail", "throw_empty"}

----------------------------------------------------------------------------
(* JavaScript helpers *)

\* truthiness of a string-or-absent value, as `x || y` and `x ? a : b` see it
Truthy(v) == v \notin {undefined, null, ""}

\* x || y
OrElse(x, y) == IF Truthy(x) THEN x ELSE y

\* { ...base, ...updates }
Spread(base, updates) ==
    [f \in DOMAIN base |-> IF f \in DOMAIN updates THEN updates[f] ELSE base[f]]

Min(S) == CHOOSE x \in S : \A y \in S : x <= y

----------------------------------------------------------------------------
(* shared/schema.ts *)

\* z.string().min(1, ...)
NonEmptyString(v) == v \notin {undefined, null, ""}

\* singleSearchSchema.parse(contact) returns (TRUE) or throws a ZodError (FALSE)
singleSearchSchema(contact) ==
    /\ contact.kind = "object"
    /\ NonEmptyString(contact.firstName)
    /\ NonEmptyString(contact.lastName)
    /\ NonEmptyString(contact.company)

----------------------------------------------------------------------------
(* Lookup Client: findEmailWithGetProspect, by what the fetch did *)

\* `API error: ${response.status} ${response.statusText}`
ApiErrorMessage(status, statusText) ==
    "API error: " \o ToString(status) \o " " \o statusText

\* the message of the Error thrown for a response that is not ok
NotOkMessage(response) ==
    IF response.status = 401 THEN "Invalid API key"
    ELSE IF response.status = 429 THEN "Rate limit exceeded. Please try again later."
    ELSE IF response.status = 402 THEN "Insufficient credits. Please upgrade your plan."
    ELSE ApiErrorMessage(response.status, response.statusText)

\* catch (error): error instanceof Error ? error.message : "Unknown error occurred"
CaughtOutcome(isError, message) ==
    [email |-> undefined,
     error |-> IF isError THEN message ELSE "Unknown error occurred"]

\* the message of the SyntaxError of response.json()
JsonSyntaxError == "Unexpected token < in JSON at position 0"

\* Mutant of findEmailWithGetProspect: the catch logs the error and throws it
\* again
findEmailWithGetProspectRethrows(transport) ==
    LET response == Fetched(transport)
    IN  IF response.threw # "no" \/ response.status \notin 200..299
             \/ response.body = "unparsable"
        THEN [email |-> undefined, error |-> undefined, thrown |-> TRUE]
        ELSE IF response.body = "email"
        THEN [email |-> "john@acme.com", error |-> undefined, thrown |-> FALSE]
        ELSE [email |-> undefined, error |-> "No email found", thrown |-> FALSE]

\* the value the promise of findEmailWithGetProspect resolves with; thrown is
\* TRUE when the promise rejects instead
findEmailWithGetProspect(transport) ==
    LET response == Fetched(transport)
        outcome ==
            IF response.threw # "no"
            THEN CaughtOutcome(response.threw = "Error", response.message)
            ELSE IF response.status \notin 200..299
            THEN CaughtOutcome(TRUE, NotOkMessage(response))
            ELSE IF response.body = "unparsable"
            THEN CaughtOutcome(TRUE, JsonSyntaxError)
            ELSE IF response.body = "email"
            THEN [email |-> "john@acme.com", error |-> undefined]
            ELSE [email |-> undefined, error |-> "No email found"]
    IN  [email |-> outcome.email, error |-> outcome.error, thrown |-> FALSE]

\* no Record Store operation has been called directly
noCall == [op |-> "none", id |-> 0, value |-> <<>>]

noResult == [email |-> undefined, error |-> undefined, thrown |-> FALSE]

----------------------------------------------------------------------------
(* Record Store: email searches *)

\* Mutant of createEmailSearch: the row is stored under its batchId instead
\* of a fresh id, so it replaces the rows the batch already has
createEmailSearchKeyedByBatch(searches, insertSearch) ==
    LET kept == SelectSeq(searches, LAMBDA row : row.batchId # insertSearch.batchId)
    IN  Append(kept, insertSearch)

\* MemStorage.createEmailSearch / DbStorage.createEmailSearch
createEmailSearch(searches, insertSearch) ==
    IF impl = "mem"
    THEN Append(searches,
                [insertSearch EXCEPT !.email = OrElse(insertSearch.email, null),
                                     !.errorMessage = OrElse(insertSearch.errorMessage, null)])
    ELSE Append(searches, insertSearch)

\* MemStorage.clearEmailSearches / DbStorage.clearEmailSearches
clearEmailSearches(searches) == <<>>

\* Mutant of getEmailSearchesByBatchId: the rows are paged like those of
\* getEmailSearches (slice(offset, offset + limit)), with a page of one row
getEmailSearchesByBatchIdPaged(batchId) ==
    LET idx == {k \in 1..Len(emailSearches) : emailSearches[k].batchId = batchId}
    IN  IF idx = {} THEN <<>>
        ELSE <<emailSearches[CHOOSE x \in idx : \A y \in idx : y <= x]>>

\* getEmailSearchesByBatchId: the rows of one batch (most recent first)
getEmailSearchesByBatchId(batchId) ==
    LET idx == {k \in 1..Len(emailSearches) : emailSearches[k].batchId = batchId}
        RECURSIVE Desc(_)
        Desc(S) == IF S = {} THEN <<>>
                   ELSE LET m == CHOOSE x \in S : \A y \in S : y <= x
                        IN  <<emailSearches[m]>> \o Desc(S \ {m})
    IN  Desc(idx)

----------------------------------------------------------------------------
(* Record Store: API configuration *)

ActiveIndexes(configs) == {k \in 1..Len(configs) : configs[k].isActive = "true"}

\* update api_config set is_active = 'false'  /  apiConfigs.forEach(...)
DeactivateAll(configs) == [k \in 1..Len(configs) |-> [configs[k] EXCEPT !.isActive = "false"]]

\* the row MemStorage.saveApiConfig stores: isActive: insertConfig.isActive || "true"
MemConfigRow(insertConfig) ==
    [apiKey |-> insertConfig.apiKey, isActive |-> OrElse(insertConfig.isActive, "true")]

\* the row DbStorage.saveApiConfig inserts: the column default fills an absent isActive
DbConfigRow(insertConfig) ==
    [apiKey |-> insertConfig.apiKey,
     isActive |-> IF insertConfig.isActive = undefined THEN "true" ELSE insertConfig.isActive]

\* getActiveApiConfig: the indexes it may return, 0 for undefined.  MemStorage
\* finds the first active entry in insertion order; DbStorage selects with
\* LIMIT 1 and no ORDER BY, so any active row may come back.
getActiveApiConfig ==
    LET active == ActiveIndexes(apiConfigs)
    IN  IF active = {} THEN {0}
        ELSE IF impl = "mem" THEN {Min(active)} ELSE active

----------------------------------------------------------------------------
(* Record Store: batch jobs *)

\* MemStorage.createBatchJob / DbStorage.createBatchJob
createBatchJob(jobs, insertJob) ==
    Append(jobs, [id |-> Len(jobs) + 1,
                  totalRecords |-> insertJob.totalRecords,
                  processedRecords |-> insertJob.processedRecords,
                  successfulRecords |-> insertJob.successfulRecords,
                  status |-> insertJob.status,
                  completedAt |-> null])

\* A value of type BatchJob | undefined is a sequence of at most one BatchJob:
\* <<>> is undefined, the absent value.
absent == <<>>

\* getBatchJob(id): the job, or undefined
getBatchJob(id) == IF id \in 1..Len(batchJobs) THEN <<batchJobs[id]>> ELSE absent

\* the job MemStorage.updateBatchJob stores and returns when new Date() is
\* `date`, and the row DbStorage.updateBatchJob's UPDATE ... SET leaves
updatedJobAt(job, updates, date) ==
    LET updatedJob == Spread(job, updates)
    IN  IF /\ impl = "mem"
           /\ "status" \in DOMAIN updates
           /\ updates.status \in {"completed", "failed"}
        THEN [updatedJob EXCEPT !.completedAt = date]
        ELSE updatedJob

\* Mutant of updateBatchJobAt: an id that names no job inserts one (an upsert)
updateBatchJobUpserts(jobs, id, updates, date) ==
    IF id \notin 1..Len(jobs)
    THEN createBatchJob(jobs, [totalRecords |-> 0, processedRecords |-> 0,
                               successfulRecords |-> 0, status |-> "processing"])
    ELSE [jobs EXCEPT ![id] = updatedJobAt(jobs[id], updates, date)]

\* the table after updateBatchJob(id, updates) called when new Date() is `date`
updateBatchJobAt(jobs, id, updates, date) ==
    IF id \notin 1..Len(jobs) THEN jobs
    ELSE [jobs EXCEPT ![id] = updatedJobAt(jobs[id], updates, date)]

\* what updateBatchJob(id, updates) returns: the updated job, or undefined
updateBatchJobReturns(jobs, id, updates, date) ==
    IF id \notin 1..Len(jobs) THEN absent
    ELSE <<updatedJobAt(jobs[id], updates, date)>>

\* MemStorage.updateBatchJob / DbStorage.updateBatchJob, as the runner calls
\* it: it does not read completedAt, so one date stands for every time
updateBatchJob(jobs, id, updates) == updateBatchJobAt(jobs, id, updates, "date")

----------------------------------------------------------------------------
(* Initial state: the server has just started *)

Init ==
    /\ impl \in {"mem", "db"}
    /\ apiConfigs = <<>>
    /\ pendingSaves = {}
    /\ nSaves = 0
    /\ raced = FALSE
    /\ batchJobs = <<>>
    /\ emailSearches = <<>>
    /\ runner = <<>>
    /\ http = [status |-> 0, error |-> "", batchId |-> 0]
    /\ rejected = 0
    /\ failures = 0
    /\ cleared = 0
    /\ returned = noCall

RECURSIVE SumTotal(_)
SumTotal(jobs) ==
    IF jobs = <<>> THEN 0 ELSE jobs[1].totalRecords + SumTotal(Tail(jobs))

\* the stored SearchRecords of single searches
SingleSearches == Len(SelectSeq(emailSearches, LAMBDA row : row.searchType = "single"))

\* inputs the environment may still give
Budget ==
    MaxEvents - (nSaves + SumTotal(batchJobs) + SingleSearches + rejected + failures + cleared)

\* a store operation of DbStorage may reject
MayFail == impl = "db" /\ Budget > 0

----------------------------------------------------------------------------
(* POST /api/config -> storage.saveApiConfig *)

\* Mutant of MemSaveApiConfig: the stored objects are given the new key too
MemSaveApiConfigOverwritesKey(insertConfig) ==
    /\ impl = "mem"
    /\ Budget > 0
    /\ nSaves' = nSaves + 1
    /\ apiConfigs' = Append([k \in 1..Len(apiConfigs) |->
                                [apiConfigs[k] EXCEPT !.isActive = "false",
                                                      !.apiKey = insertConfig.apiKey]],
                            MemConfigRow(insertConfig))
    /\ UNCHANGED <<impl, pendingSaves, raced, batchJobs, emailSearches, runner, http, rejected, failures, cleared, returned>>

\* MemStorage.saveApiConfig: no await inside, so the whole call is one step
MemSaveApiConfig(insertConfig) ==
    /\ impl = "mem"
    /\ Budget > 0
    /\ nSaves' = nSaves + 1
    /\ apiConfigs' = Append(DeactivateAll(apiConfigs), MemConfigRow(insertConfig))
    /\ UNCHANGED <<impl, pendingSaves, raced, batchJobs, emailSearches, runner, http, rejected, failures, cleared, returned>>

\* DbStorage.saveApiConfig up to its first await: the UPDATE has run
DbSaveDeactivate(insertConfig) ==
    /\ impl = "db"
    /\ Budget > 0
    /\ nSaves' = nSaves + 1
    /\ apiConfigs' = DeactivateAll(apiConfigs)
    /\ pendingSaves' = pendingSaves \cup {[call |-> nSaves + 1, row |-> DbConfigRow(insertConfig)]}
    /\ raced' = (raced \/ pendingSaves # {})
    /\ UNCHANGED <<impl, batchJobs, emailSearches, runner, http, rejected, failures, cleared, returned>>

\* DbStorage.saveApiConfig after the UPDATE: the INSERT
DbSaveInsert(save) ==
    /\ save \in pendingSaves
    /\ pendingSaves' = pendingSaves \ {save}
    /\ apiConfigs' = Append(apiConfigs, save.row)
    /\ UNCHANGED <<impl, nSaves, raced, batchJobs, emailSearches, runner, http, rejected, failures, cleared, returned>>

\* the INSERT rejects: the handler answers 400 and the rows stay deactivated
DbSaveInsertFails(save) ==
    /\ save \in pendingSaves
    /\ MayFail
    /\ failures' = failures + 1
    /\ pendingSaves' = pendingSaves \ {save}
    /\ UNCHANGED <<impl, apiConfigs, nSaves, raced, batchJobs, emailSearches, runner, http, rejected, cleared, returned>>

----------------------------------------------------------------------------
(* POST /api/search/batch, phase 1: the request handler *)

\* req.body.contacts: something that is not an array, or an array of contacts
RequestBodies ==
    {[isArray |-> FALSE, contacts |-> <<>>]}
    \cup {[isArray |-> TRUE, contacts |-> c] :
              c \in SeqsUpTo(ContactPool, Budget)}

\* Mutant of NoContactsProvided: the length test is missing
NoContactsProvidedArrayOnly(body) == ~body.isArray

\* !Array.isArray(contacts) || contacts.length === 0
NoContactsProvided(body) == ~body.isArray \/ Len(body.contacts) = 0

\* Mutant of NewBatchJob: the job is created as pending
NewBatchJobPending(body) ==
    [totalRecords |-> Len(body.contacts),
     processedRecords |-> 0,
     successfulRecords |-> 0,
     status |-> "pending"]

\* the job the handler asks the store to create
NewBatchJob(body) ==
    [totalRecords |-> Len(body.contacts),
     processedRecords |-> 0,
     successfulRecords |-> 0,
     status |-> "processing"]

\* the closure handed to setTimeout(..., 100): it has not run yet.
\* apiConfig is the ApiConfig the handler got from getActiveApiConfig: under
\* MemStorage the stored object itself (here its index), under DbStorage a row
\* of its own; apiKey is the key that object had when the batch was accepted;
\* sent is the key of the last lookup call, and the keys active at that call
ScheduledRunner(body, configs, cfg) ==
    [pc |-> "scheduled", contacts |-> body.contacts, i |-> 0,
     processed |-> 0, successful |-> 0,
     apiConfig |-> cfg, apiKey |-> configs[cfg].apiKey,
     sent |-> [apiKey |-> undefined, whileActive |-> {}],
     fetched |-> "none", result |-> noResult]

Response(status, error, batchId) ==
    [status |-> status, error |-> error, batchId |-> batchId]

\* the handler from the request to res.json: both guards, createBatchJob,
\* setTimeout and the response
PostSearchBatch(body) ==
    /\ body \in RequestBodies
    /\ Budget > 0
    /\ IF NoContactsProvided(body)
       THEN /\ http' = Response(400, "No contacts provided", 0)
            /\ rejected' = rejected + 1
            /\ UNCHANGED <<batchJobs, runner>>
       ELSE \E cfg \in getActiveApiConfig :
              IF cfg = 0
              THEN /\ http' = Response(400, "API key not configured", 0)
                   /\ rejected' = rejected + 1
                   /\ UNCHANGED <<batchJobs, runner>>
              ELSE /\ batchJobs' = createBatchJob(batchJobs, NewBatchJob(body))
                   /\ runner' = Append(runner, ScheduledRunner(body, apiConfigs, cfg))
                   /\ http' = Response(200, "", Len(batchJobs) + 1)
                   /\ UNCHANGED rejected
    /\ UNCHANGED <<impl, apiConfigs, pendingSaves, nSaves, raced, emailSearches, failures, cleared, returned>>

\* getActiveApiConfig or createBatchJob rejects: the handler's catch answers 400
PostSearchBatchStoreFails(body) ==
    /\ body \in RequestBodies
    /\ ~NoContactsProvided(body)
    /\ MayFail
    /\ failures' = failures + 1
    /\ http' = Response(400, "store", 0)
    /\ UNCHANGED <<impl, apiConfigs, pendingSaves, nSaves, raced, batchJobs, emailSearches, runner, rejected, cleared, returned>>

----------------------------------------------------------------------------
(* POST /api/search/single *)

\* Mutant of SingleRecord: the status is taken from the email
SingleRecordStatusByEmail(validatedData, result) ==
    [firstName |-> validatedData.firstName,
     lastName |-> validatedData.lastName,
     company |-> validatedData.company,
     email |-> OrElse(result.email, null),
     status |-> IF Truthy(result.email) THEN "found" ELSE "not_found",
     errorMessage |-> OrElse(result.error, null),
     searchType |-> "single",
     batchId |-> 0]

\* the row the handler asks the store to create (batchId 0 stands for null)
SingleRecord(validatedData, result) ==
    [firstName |-> validatedData.firstName,
     lastName |-> validatedData.lastName,
     company |-> validatedData.company,
     email |-> OrElse(result.email, null),
     status |-> IF Truthy(result.error) THEN "not_found" ELSE "found",
     errorMessage |-> OrElse(result.error, null),
     searchType |-> "single",
     batchId |-> 0]

\* the handler from the request to its response: the body is parsed, the
\* active ApiConfig read, the lookup made over `transport` and its row stored;
\* none of its awaits reads state written by another handler after the first
PostSearchSingle(body, transport) ==
    /\ Budget > 0
    /\ IF ~singleSearchSchema(body)
       THEN /\ http' = Response(400, "validation", 0)
            /\ rejected' = rejected + 1
            /\ UNCHANGED emailSearches
       ELSE \E cfg \in getActiveApiConfig :
              IF cfg = 0
              THEN /\ http' = Response(400, "API key not configured", 0)
                   /\ rejected' = rejected + 1
                   /\ UNCHANGED emailSearches
              ELSE LET result == findEmailWithGetProspect(transport)
                   IN  IF result.thrown
                       THEN /\ http' = Response(400, "Search failed", 0)
                            /\ rejected' = rejected + 1
                            /\ UNCHANGED emailSearches
                       ELSE /\ emailSearches' = createEmailSearch(emailSearches,
                                                     SingleRecord(body, result))
                            /\ http' = Response(200, "", 0)
                            /\ UNCHANGED rejected
    /\ UNCHANGED <<impl, apiConfigs, pendingSaves, nSaves, raced, batchJobs, runner, failures, cleared, returned>>

\* getActiveApiConfig or createEmailSearch rejects: the catch answers 400
PostSearchSingleStoreFails(body) ==
    /\ singleSearchSchema(body)
    /\ MayFail
    /\ failures' = failures + 1
    /\ http' = Response(400, "store", 0)
    /\ UNCHANGED <<impl, apiConfigs, pendingSaves, nSaves, raced, batchJobs, emailSearches, runner, rejected, cleared, returned>>

----------------------------------------------------------------------------
(* POST /api/search/batch, phase 2: the detached runner *)

\* apiConfig.apiKey as findEmailWithGetProspect is called: read through the
\* stored object under MemStorage, from the runner's own row under DbStorage
KeySent(r) ==
    [apiKey |-> IF impl = "mem" THEN apiConfigs[r.apiConfig].apiKey ELSE r.apiKey,
     whileActive |-> {apiConfigs[k].apiKey : k \in ActiveIndexes(apiConfigs)}]

\* The loop from its head at contact i to the next await: past the last
\* contact the completion update is issued; a contact that parses is looked
\* up; a contact that does not parse enters the catch, which counts it and
\* reads contact.firstName (a TypeError when the contact is null, which
\* nothing catches) before it issues createEmailSearch.
LoopFrom(r, i) ==
    IF i > Len(r.contacts)
    THEN [r EXCEPT !.i = i, !.pc = "final"]
    ELSE IF singleSearchSchema(r.contacts[i])
    THEN [r EXCEPT !.i = i, !.pc = "lookup", !.sent = KeySent(r)]
    ELSE IF r.contacts[i].kind = "null"
    THEN [r EXCEPT !.i = i, !.processed = r.processed + 1, !.pc = "crashed"]
    ELSE [r EXCEPT !.i = i, !.processed = r.processed + 1, !.pc = "catch"]

\* a rejected store write inside the try: the catch counts the contact (again)
\* and issues the "Invalid contact data" record
IntoCatch(r) == [r EXCEPT !.processed = r.processed + 1, !.pc = "catch"]

\* Mutant of FoundRecord: the row is built from the contact at the same
\* position counted from the end of the array
FoundRecordFromTheEnd(r, batchId) ==
    LET contact == r.contacts[Len(r.contacts) + 1 - r.i]
    IN  [firstName |-> contact.firstName,
         lastName |-> contact.lastName,
         company |-> contact.company,
         email |-> OrElse(r.result.email, null),
         status |-> IF Truthy(r.result.error) THEN "not_found" ELSE "found",
         errorMessage |-> OrElse(r.result.error, null),
         searchType |-> "batch",
         batchId |-> batchId]

\* the row of the try branch
FoundRecord(r, batchId) ==
    LET contact == r.contacts[r.i]
    IN  [firstName |-> contact.firstName,
         lastName |-> contact.lastName,
         company |-> contact.company,
         email |-> OrElse(r.result.email, null),
         status |-> IF Truthy(r.result.error) THEN "not_found" ELSE "found",
         errorMessage |-> OrElse(r.result.error, null),
         searchType |-> "batch",
         batchId |-> batchId]

\* the row of the catch branch
ErrorRecord(r, batchId) ==
    LET contact == r.contacts[r.i]
    IN  [firstName |-> OrElse(contact.firstName, "Unknown"),
         lastName |-> OrElse(contact.lastName, "Unknown"),
         company |-> OrElse(contact.company, "Unknown"),
         email |-> null,
         status |-> "error",
         errorMessage |-> "Invalid contact data",
         searchType |-> "batch",
         batchId |-> batchId]

\* Mutant of Counted: processed++ sits in the else of the error test
CountedOnlyErrors(r) ==
    IF Truthy(r.result.error)
    THEN [r EXCEPT !.processed = r.processed + 1]
    ELSE [r EXCEPT !.successful = r.successful + 1]

\* if (!result.error) successful++; processed++
Counted(r) ==
    [r EXCEPT !.successful = IF Truthy(r.result.error) THEN r.successful ELSE r.successful + 1,
              !.processed = r.processed + 1]

\* Mutant of ProgressUpdate: this contact's counts are written, not the totals
ProgressUpdateOfThisContact(r) ==
    [processedRecords |-> 1,
     successfulRecords |-> IF Truthy(r.result.error) THEN 0 ELSE 1]

\* the partial update of the per-contact progress write
ProgressUpdate(r) ==
    [processedRecords |-> r.processed, successfulRecords |-> r.successful]

\* Mutant of CompletionUpdate: a batch in which no email was found ends failed
CompletionUpdateFailedWhenNoneFound(r) ==
    [status |-> IF r.successful = 0 THEN "failed" ELSE "completed",
     processedRecords |-> r.processed, successfulRecords |-> r.successful]

\* the partial update that marks the batch completed
CompletionUpdate(r) ==
    [status |-> "completed", processedRecords |-> r.processed, successfulRecords |-> r.successful]

Jobs == 1..Len(runner)

\* the 100 ms timer fires: processed = 0, successful = 0, first iteration
RunnerStart(j) ==
    /\ runner[j].pc = "scheduled"
    /\ runner' = [runner EXCEPT ![j] = LoopFrom(runner[j], 1)]
    /\ UNCHANGED <<impl, apiConfigs, pendingSaves, nSaves, raced, batchJobs, emailSearches, http, rejected, failures, cleared, returned>>

\* the promise of findEmailWithGetProspect settles: with a value,
\* createEmailSearch is issued; with a rejection, the catch takes over
LookupReturns(j, transport) ==
    /\ runner[j].pc = "lookup"
    /\ LET result == findEmailWithGetProspect(transport)
           r == [runner[j] EXCEPT !.fetched = transport, !.result = result]
       IN  runner' = [runner EXCEPT ![j] = IF result.thrown THEN IntoCatch(r)
                                           ELSE [r EXCEPT !.pc = "record"]]
    /\ UNCHANGED <<impl, apiConfigs, pendingSaves, nSaves, raced, batchJobs, emailSearches, http, rejected, failures, cleared, returned>>

\* Mutant of RecordCreated: updateBatchJob and the pacing delay are not
\* awaited, so the loop goes on to the next contact at once
RecordCreatedUnawaited(j) ==
    /\ runner[j].pc = "record"
    /\ emailSearches' = createEmailSearch(emailSearches, FoundRecord(runner[j], j))
    /\ batchJobs' = updateBatchJob(batchJobs, j, ProgressUpdate(Counted(runner[j])))
    /\ runner' = [runner EXCEPT ![j] = LoopFrom(Counted(@), @.i + 1)]
    /\ UNCHANGED <<impl, apiConfigs, pendingSaves, nSaves, raced, http, rejected, failures, cleared, returned>>

\* createEmailSearch of the try branch returns; the counters are bumped and
\* updateBatchJob is issued
RecordCreated(j) ==
    /\ runner[j].pc = "record"
    /\ emailSearches' = createEmailSearch(emailSearches, FoundRecord(runner[j], j))
    /\ runner' = [runner EXCEPT ![j] = [Counted(@) EXCEPT !.pc = "progress"]]
    /\ UNCHANGED <<impl, apiConfigs, pendingSaves, nSaves, raced, batchJobs, http, rejected, failures, cleared, returned>>

\* createEmailSearch of the try branch rejects
RecordCreateFails(j) ==
    /\ runner[j].pc = "record"
    /\ MayFail
    /\ failures' = failures + 1
    /\ runner' = [runner EXCEPT ![j] = IntoCatch(@)]
    /\ UNCHANGED <<impl, apiConfigs, pendingSaves, nSaves, raced, batchJobs, emailSearches, http, rejected, cleared, returned>>

\* Mutant of ProgressWritten: the id of the batch is kept in a variable of
\* the module, shared by all runners, so the write goes to the latest job
ProgressWrittenToLatestJob(j) ==
    /\ runner[j].pc = "progress"
    /\ batchJobs' = updateBatchJob(batchJobs, Len(batchJobs), ProgressUpdate(runner[j]))
    /\ runner' = [runner EXCEPT ![j] = [@ EXCEPT !.pc = "delay"]]
    /\ UNCHANGED <<impl, apiConfigs, pendingSaves, nSaves, raced, emailSearches, http, rejected, failures, cleared, returned>>

\* the progress updateBatchJob returns; the 1000 ms pacing delay starts
ProgressWritten(j) ==
    /\ runner[j].pc = "progress"
    /\ batchJobs' = updateBatchJob(batchJobs, j, ProgressUpdate(runner[j]))
    /\ runner' = [runner EXCEPT ![j] = [@ EXCEPT !.pc = "delay"]]
    /\ UNCHANGED <<impl, apiConfigs, pendingSaves, nSaves, raced, emailSearches, http, rejected, failures, cleared, returned>>

\* Mutant of ProgressWriteFails: the rejection escapes the try
ProgressWriteFailsUncaught(j) ==
    /\ runner[j].pc = "progress"
    /\ MayFail
    /\ failures' = failures + 1
    /\ runner' = [runner EXCEPT ![j] = [@ EXCEPT !.pc = "crashed"]]
    /\ UNCHANGED <<impl, apiConfigs, pendingSaves, nSaves, raced, batchJobs, emailSearches, http, rejected, cleared, returned>>

\* the progress updateBatchJob rejects
ProgressWriteFails(j) ==
    /\ runner[j].pc = "progress"
    /\ MayFail
    /\ failures' = failures + 1
    /\ runner' = [runner EXCEPT ![j] = IntoCatch(@)]
    /\ UNCHANGED <<impl, apiConfigs, pendingSaves, nSaves, raced, batchJobs, emailSearches, http, rejected, cleared, returned>>

\* the pacing delay elapses: next iteration
DelayElapsed(j) ==
    /\ runner[j].pc = "delay"
    /\ runner' = [runner EXCEPT ![j] = LoopFrom(@, @.i + 1)]
    /\ UNCHANGED <<impl, apiConfigs, pendingSaves, nSaves, raced, batchJobs, emailSearches, http, rejected, failures, cleared, returned>>

\* createEmailSearch of the catch branch returns: next iteration
CatchRecordCreated(j) ==
    /\ runner[j].pc = "catch"
    /\ emailSearches' = createEmailSearch(emailSearches, ErrorRecord(runner[j], j))
    /\ runner' = [runner EXCEPT ![j] = LoopFrom(@, @.i + 1)]
    /\ UNCHANGED <<impl, apiConfigs, pendingSaves, nSaves, raced, batchJobs, http, rejected, failures, cleared, returned>>

\* createEmailSearch of the catch branch rejects: nothing catches it
CatchRecordCreateFails(j) ==
    /\ runner[j].pc = "catch"
    /\ MayFail
    /\ failures' = failures + 1
    /\ runner' = [runner EXCEPT ![j] = [@ EXCEPT !.pc = "crashed"]]
    /\ UNCHANGED <<impl, apiConfigs, pendingSaves, nSaves, raced, batchJobs, emailSearches, http, rejected, cleared, returned>>

\* the completion updateBatchJob returns: the closure ends
CompletionWritten(j) ==
    /\ runner[j].pc = "final"
    /\ batchJobs' = updateBatchJob(batchJobs, j, CompletionUpdate(runner[j]))
    /\ runner' = [runner EXCEPT ![j] = [@ EXCEPT !.pc = "done"]]
    /\ UNCHANGED <<impl, apiConfigs, pendingSaves, nSaves, raced, emailSearches, http, rejected, failures, cleared, returned>>

\* the completion updateBatchJob rejects: nothing catches it
CompletionWriteFails(j) ==
    /\ runner[j].pc = "final"
    /\ MayFail
    /\ failures' = failures + 1
    /\ runner' = [runner EXCEPT ![j] = [@ EXCEPT !.pc = "crashed"]]
    /\ UNCHANGED <<impl, apiConfigs, pendingSaves, nSaves, raced, batchJobs, emailSearches, http, rejected, cleared, returned>>

----------------------------------------------------------------------------
(* DELETE /api/searches -> storage.clearEmailSearches *)

\* the bulk clear returns: every SearchRecord is gone, of every batch
DeleteSearches ==
    /\ Budget > 0
    /\ cleared' = cleared + 1
    /\ emailSearches' = clearEmailSearches(emailSearches)
    /\ UNCHANGED <<impl, apiConfigs, pendingSaves, nSaves, raced, batchJobs, runner, http, rejected, failures, returned>>

\* the bulk clear rejects: the handler answers 500 and nothing is removed
DeleteSearchesFails ==
    /\ MayFail
    /\ failures' = failures + 1
    /\ UNCHANGED <<impl, apiConfigs, pendingSaves, nSaves, raced, batchJobs, emailSearches, runner, http, rejected, cleared, returned>>

----------------------------------------------------------------------------
(* The program *)

ConfigStep ==
    \/ \E c \in InsertApiConfigs : MemSaveApiConfig(c)
    \/ \E c \in InsertApiConfigs : DbSaveDeactivate(c)
    \/ \E s \in pendingSaves : DbSaveInsert(s)
    \/ \E s \in pendingSaves : DbSaveInsertFails(s)

SubmitStep ==
    \/ \E body \in RequestBodies : PostSearchBatch(body)
    \/ \E body \in RequestBodies : PostSearchBatchStoreFails(body)

RunnerStep ==
    \/ \E j \in Jobs : RunnerStart(j)
    \/ \E j \in Jobs, t \in Transports : LookupReturns(j, t)
    \/ \E j \in Jobs : RecordCreated(j)
    \/ \E j \in Jobs : RecordCreateFails(j)
    \/ \E j \in Jobs : ProgressWritten(j)
    \/ \E j \in Jobs : ProgressWriteFails(j)
    \/ \E j \in Jobs : DelayElapsed(j)
    \/ \E j \in Jobs : CatchRecordCreated(j)
    \/ \E j \in Jobs : CatchRecordCreateFails(j)
    \/ \E j \in Jobs : CompletionWritten(j)
    \/ \E j \in Jobs : CompletionWriteFails(j)

ClearStep ==
    \/ DeleteSearches
    \/ DeleteSearchesFails

Next == ConfigStep \/ SubmitStep \/ RunnerStep \/ ClearStep

Spec == Init /\ [][Next]_vars

----------------------------------------------------------------------------
(* The server started over a database that already holds an active         *)
(* ApiConfig (DbStorage keeps its rows across restarts of the process) and  *)
(* has accepted one batch.                                                  *)

ResumedInit ==
    \E key \in ApiKeys, contacts \in SeqsUpTo(ContactPool, MaxEvents - 1) \ {<<>>} :
        LET body == [isArray |-> TRUE, contacts |-> contacts]
            apiConfig == [apiKey |-> key, isActive |-> "true"]
        IN  /\ impl = "db"
            /\ apiConfigs = <<apiConfig>>
            /\ pendingSaves = {}
            /\ nSaves = 0
            /\ raced = FALSE
            /\ batchJobs = createBatchJob(<<>>, NewBatchJob(body))
            /\ emailSearches = <<>>
            /\ runner = <<ScheduledRunner(body, <<apiConfig>>, 1)>>
            /\ http = Response(200, "", 1)
            /\ rejected = 0
            /\ failures = 0
            /\ cleared = 0
            /\ returned = noCall

\* the batch runs and searches are cleared; nothing else is requested
ResumedNext ==
    \/ RunnerStep
    \/ ClearStep

ResumedSpec == ResumedInit /\ [][ResumedNext]_vars

----------------------------------------------------------------------------
(* The batch-job operations of the Record Store called directly, with any  *)
(* id and any partial update, every call being answered.                   *)

\* at most this many jobs are created
MaxStoreJobs == 2

\* the values new Date() has at the calls
Dates == {"t1", "t2"}

\* Partial<BatchJob> values passed to updateBatchJob: counters only, the
\* completion update, and a status on its own
PartialUpdates ==
    {[processedRecords |-> 1, successfulRecords |-> 1],
     [status |-> "completed", processedRecords |-> 1, successfulRecords |-> 1],
     [status |-> "failed"]}

\* the ids a caller may pass: every stored id and one that names no job
CallerIds == 1..(Len(batchJobs) + 1)

\* a store that holds one ApiConfig and one SearchRecord of a single search
\* (batchId 0 stands for the null batchId of a search outside any batch)
StoreInit ==
    /\ impl \in {"mem", "db"}
    /\ apiConfigs = <<[apiKey |-> "A", isActive |-> "true"]>>
    /\ pendingSaves = {}
    /\ nSaves = 1
    /\ raced = FALSE
    /\ batchJobs = <<>>
    /\ emailSearches = createEmailSearch(<<>>,
            [firstName |-> "John", lastName |-> "Doe", company |-> "Acme",
             email |-> undefined, status |-> "not_found",
             errorMessage |-> "No email found", searchType |-> "single",
             batchId |-> 0])
    /\ runner = <<>>
    /\ http = [status |-> 0, error |-> "", batchId |-> 0]
    /\ rejected = 0
    /\ failures = 0
    /\ cleared = 0
    /\ returned = noCall

\* createBatchJob(insertJob)
StoreCreateBatchJob ==
    /\ Len(batchJobs) < MaxStoreJobs
    /\ batchJobs' = createBatchJob(batchJobs,
                        NewBatchJob([isArray |-> TRUE, contacts |-> <<validContact>>]))
    /\ returned' = [op |-> "createBatchJob", id |-> Len(batchJobs) + 1,
                    value |-> <<batchJobs'[Len(batchJobs')]>>]
    /\ UNCHANGED <<impl, apiConfigs, pendingSaves, nSaves, raced, emailSearches, runner, http, rejected, failures, cleared>>

\* getBatchJob(id)
StoreGetBatchJob(id) ==
    /\ returned' = [op |-> "getBatchJob", id |-> id, value |-> getBatchJob(id)]
    /\ UNCHANGED <<impl, apiConfigs, pendingSaves, nSaves, raced, batchJobs, emailSearches, runner, http, rejected, failures, cleared>>

\* updateBatchJob(id, updates), called when new Date() is `date`
StoreUpdateBatchJob(id, updates, date) ==
    /\ batchJobs' = updateBatchJobAt(batchJobs, id, updates, date)
    /\ returned' = [op |-> "updateBatchJob", id |-> id,
                    value |-> updateBatchJobReturns(batchJobs, id, updates, date)]
    /\ UNCHANGED <<impl, apiConfigs, pendingSaves, nSaves, raced, emailSearches, runner, http, rejected, failures, cleared>>

StoreNext ==
    \/ StoreCreateBatchJob
    \/ \E id \in CallerIds : StoreGetBatchJob(id)
    \/ \E id \in CallerIds, updates \in PartialUpdates, date \in Dates :
          StoreUpdateBatchJob(id, updates, date)

StoreSpec == StoreInit /\ [][StoreNext]_vars

----------------------------------------------------------------------------
(* The Lookup Client under every outcome of its fetch: the runner of one    *)
(* batch of one contact, from the moment the handler has answered, and      *)
(* single searches.                                                         *)

\* the state in which POST /api/search/batch has accepted a batch of one
\* contact, after one saveApiConfig
LookupInit ==
    \E key \in ApiKeys, contact \in ContactPool :
        LET body == [isArray |-> TRUE, contacts |-> <<contact>>]
            apiConfig == [apiKey |-> key, isActive |-> "true"]
        IN  /\ impl \in {"mem", "db"}
            /\ apiConfigs = <<apiConfig>>
            /\ pendingSaves = {}
            /\ nSaves = 1
            /\ raced = FALSE
            /\ batchJobs = createBatchJob(<<>>, NewBatchJob(body))
            /\ emailSearches = <<>>
            /\ runner = <<ScheduledRunner(body, <<apiConfig>>, 1)>>
            /\ http = Response(200, "", 1)
            /\ rejected = 0
            /\ failures = 0
            /\ cleared = 0
            /\ returned = noCall

LookupNext ==
    \/ \E j \in Jobs : RunnerStart(j)
    \/ \E j \in Jobs, t \in AllTransports : LookupReturns(j, t)
    \/ \E j \in Jobs : RecordCreated(j)
    \/ \E j \in Jobs : RecordCreateFails(j)
    \/ \E j \in Jobs : ProgressWritten(j)
    \/ \E j \in Jobs : ProgressWriteFails(j)
    \/ \E j \in Jobs : DelayElapsed(j)
    \/ \E j \in Jobs : CatchRecordCreated(j)
    \/ \E j \in Jobs : CatchRecordCreateFails(j)
    \/ \E j \in Jobs : CompletionWritten(j)
    \/ \E j \in Jobs : CompletionWriteFails(j)
    \/ \E body \in ContactPool, t \in AllTransports : PostSearchSingle(body, t)
    \/ \E body \in ContactPool : PostSearchSingleStoreFails(body)

LookupSpec == LookupInit /\ [][LookupNext]_vars

----------------------------------------------------------------------------
(* Claims *)

JobIds == 1..Len(batchJobs)

RecordsOf(searches, batchId) ==
    {k \in 1..Len(searches) : searches[k].batchId = batchId}

\* C1: whenever the runner of a batch accepted with N contacts has run to
\* its end, the persisted job has processedRecords = N and status completed,
\* whatever the lookups returned.
C1_FinishedJobIsComplete ==
    \A j \in JobIds :
        runner[j].pc = "done"
            => /\ batchJobs[j].processedRecords = Len(runner[j].contacts)
               /\ batchJobs[j].status = "completed"

\* C2: no per-contact outcome (a lookup error, no email, a contact that fails
\* shape validation, a contact that is null) ends the runner before it has
\* written the completion update.
C2_NoContactAbortsTheLoop ==
    \A j \in JobIds : runner[j].pc # "crashed"

\* C3: the persisted processedRecords of a job never exceeds its totalRecords.
C3_ProcessedAtMostTotal ==
    \A j \in JobIds : batchJobs[j].processedRecords <= batchJobs[j].totalRecords

\* C4: in every step, no job disappears and the persisted processedRecords
\* and successfulRecords of every job do not decrease.
C4_CountersNeverDecrease ==
    [][/\ Len(batchJobs') >= Len(batchJobs)
       /\ \A j \in JobIds :
            /\ batchJobs'[j].processedRecords >= batchJobs[j].processedRecords
            /\ batchJobs'[j].successfulRecords >= batchJobs[j].successfulRecords]_vars

\* C4 witness: a progress write has raised both counters of a job whose
\* runner is still between two contacts.
C4_Witness ==
    \E j \in JobIds :
        /\ runner[j].pc = "delay"
        /\ batchJobs[j].processedRecords >= 1
        /\ batchJobs[j].successfulRecords >= 1

\* C5: the persisted successfulRecords of a job is at most its persisted
\* processedRecords.
C5_SuccessfulAtMostProcessed ==
    \A j \in JobIds : batchJobs[j].successfulRecords <= batchJobs[j].processedRecords

\* C5 witness: a job that has counted one successful and one unsuccessful
\* contact.
C5_Witness ==
    \E j \in JobIds :
        /\ batchJobs[j].successfulRecords = 1
        /\ batchJobs[j].processedRecords = 2

\* C6: once saveApiConfig has been called and no call is in progress, exactly
\* one ApiConfig has isActive = "true"; before the first call none has.
C6_ExactlyOneActiveAfterSave ==
    pendingSaves = {}
        => IF nSaves = 0
           THEN ActiveIndexes(apiConfigs) = {}
           ELSE Cardinality(ActiveIndexes(apiConfigs)) = 1

\* C7: at most one ApiConfig has isActive = "true" in every reachable state,
\* the states between the two steps of interleaved saveApiConfig calls included.
C7_AtMostOneActive ==
    Cardinality(ActiveIndexes(apiConfigs)) <= 1

\* C8: after saveApiConfig calls that did not overlap, getActiveApiConfig
\* returns the most recently saved config and every earlier config has
\* isActive = "false".
C8_LastSavedIsActive ==
    (nSaves >= 1 /\ pendingSaves = {} /\ ~raced /\ failures = 0)
        => /\ getActiveApiConfig = {Len(apiConfigs)}
           /\ \A k \in 1..(Len(apiConfigs) - 1) : apiConfigs[k].isActive = "false"

\* C9: a batch submission that is answered 400 leaves the Record Store as it
\* was and starts no runner, and a submission creates a job only if its
\* contacts are a non-empty array and an ApiConfig is active when it arrives.
C9_RejectionLeavesNoState ==
    [][/\ rejected' # rejected
            => /\ http'.status = 400
               /\ http'.batchId = 0
               /\ batchJobs' = batchJobs
               /\ emailSearches' = emailSearches
               /\ apiConfigs' = apiConfigs
               /\ runner' = runner
       /\ Len(batchJobs') # Len(batchJobs)
            => /\ ActiveIndexes(apiConfigs) # {}
               /\ batchJobs'[Len(batchJobs')].totalRecords >= 1
               /\ rejected' = rejected]_vars

\* C9 witness: with a job and its record already stored, a submission has
\* just been rejected for having no contacts.
C9_Witness ==
    /\ http.status = 400
    /\ http.error = "No contacts provided"
    /\ rejected >= 1
    /\ Len(batchJobs) >= 1
    /\ Len(emailSearches) >= 1

\* C10: the step that accepts a submission answers 200 with the id of a new
\* job that has status processing, totalRecords = len(contacts) and both
\* counters 0, and at that moment the job's runner has not run: no
\* SearchRecord carries the job's id; as long as the runner has not started,
\* the job stays as created.
C10_AcceptedJobStartsUntouched ==
    [][/\ Len(batchJobs') # Len(batchJobs)
            => LET b == Len(batchJobs')
               IN  /\ b = Len(batchJobs) + 1
                   /\ http' = [status |-> 200, error |-> "", batchId |-> b]
                   /\ batchJobs'[b].id = b
                   /\ batchJobs'[b].status = "processing"
                   /\ batchJobs'[b].totalRecords = Len(runner'[b].contacts)
                   /\ batchJobs'[b].processedRecords = 0
                   /\ batchJobs'[b].successfulRecords = 0
                   /\ runner'[b].pc = "scheduled"
                   /\ RecordsOf(emailSearches', b) = {}
       /\ \A j \in JobIds :
            runner[j].pc = "scheduled"
                => /\ batchJobs[j].processedRecords = 0
                   /\ batchJobs[j].successfulRecords = 0
                   /\ batchJobs[j].status = "processing"
                   /\ RecordsOf(emailSearches, j) = {}]_vars

\* C10 witness: the latest submission was accepted, its runner has not started,
\* and another job has already stored a record.
C10_Witness ==
    /\ http.status = 200
    /\ http.batchId \in JobIds
    /\ runner[http.batchId].pc = "scheduled"
    /\ Len(emailSearches) >= 1

\* C11: a job has one operation outstanding at a time.  The lookup of a
\* contact is issued (the runner enters "lookup") only by the timer that
\* starts the runner, for contact 1, or for contact i+1 when everything issued
\* for contact i has returned: after the pacing delay that follows the
\* returned lookup, record write and progress write of contact i (the record
\* is stored, unless a bulk clear has removed it, and the progress is
\* persisted), or after the record write of the catch branch.  Other jobs are
\* not constrained by it.
C11_LookupsOfAJobAreSequential ==
    [][\A j \in Jobs :
        (runner'[j].pc = "lookup" /\ runner'[j] # runner[j])
            => \/ /\ runner[j].pc = "scheduled"
                  /\ runner'[j].i = 1
               \/ /\ runner[j].pc = "delay"
                  /\ runner'[j].i = runner[j].i + 1
                  /\ batchJobs[j].processedRecords = runner[j].processed
                  /\ batchJobs[j].successfulRecords = runner[j].successful
                  /\ cleared = 0 => RecordsOf(emailSearches, j) # {}
                  /\ emailSearches' = emailSearches
               \/ /\ runner[j].pc = "catch"
                  /\ runner'[j].i = runner[j].i + 1
                  /\ Len(emailSearches') = Len(emailSearches) + 1]_vars

\* C11 witness: the lookup of the second contact of a job is in flight, with
\* the record and the progress of the first contact stored.
C11_Witness ==
    \E j \in JobIds :
        /\ runner[j].pc = "lookup"
        /\ runner[j].i = 2
        /\ batchJobs[j].processedRecords = 1
        /\ Cardinality(RecordsOf(emailSearches, j)) = 1

\* C11, second part: the lookups of two jobs are in flight at the same time.
C11_TwoJobsLookUpAtOnce ==
    \E j, k \in JobIds : j # k /\ runner[j].pc = "lookup" /\ runner[k].pc = "lookup"

\* C12: after every step each BatchJob has status processing or completed; a
\* job that the step creates has status processing, and the status of an
\* existing job either stays as it is or goes from processing to completed.
\* So pending, failed and cancelled never occur and completed is never left.
C12_StatusIsProcessingOrCompleted ==
    [][\A j \in 1..Len(batchJobs') :
        /\ batchJobs'[j].status \in {"processing", "completed"}
        /\ IF j \in JobIds
           THEN \/ batchJobs'[j].status = batchJobs[j].status
                \/ /\ batchJobs[j].status = "processing"
                   /\ batchJobs'[j].status = "completed"
           ELSE batchJobs'[j].status = "processing"]_vars

\* C12 witness: one job has been completed, with no email found, while
\* another job is still processing.
C12_Witness ==
    \E j, k \in JobIds :
        /\ batchJobs[j].status = "completed"
        /\ batchJobs[j].successfulRecords = 0
        /\ batchJobs[k].status = "processing"

ErrorRecordsOf(searches, batchId) ==
    {k \in RecordsOf(searches, batchId) : searches[k].status = "error"}

\* the contacts of job j that fail shape validation, among the first n
InvalidContacts(j, n) ==
    {k \in 1..Min({n, Len(runner[j].contacts)}) : ~singleSearchSchema(runner[j].contacts[k])}

\* the contacts of job j that the runner will not come back to: those before
\* the one it is at, and the one it was at when it ended
LeftBehind(j) ==
    IF runner[j].pc = "crashed" THEN runner[j].i
    ELSE IF runner[j].pc = "scheduled" THEN 0
    ELSE runner[j].i - 1

\* C13: as long as no store operation has rejected and nothing was cleared,
\* every shape-invalid contact the runner has left behind has its SearchRecord
\* with status error; every such record has errorMessage "Invalid contact
\* data" and a non-empty firstName, lastName and company ("Unknown" where the
\* contact had none) and no email; the Lookup Client is only ever invoked for
\* a contact that passes validation; and successful counts no invalid contact.
C13_InvalidContactIsRecordedAsError ==
    (failures = 0 /\ cleared = 0)
        => \A j \in JobIds :
            /\ Cardinality(ErrorRecordsOf(emailSearches, j))
                    = Cardinality(InvalidContacts(j, LeftBehind(j)))
            /\ \A k \in ErrorRecordsOf(emailSearches, j) :
                    /\ emailSearches[k].errorMessage = "Invalid contact data"
                    /\ emailSearches[k].email = null
                    /\ Truthy(emailSearches[k].firstName)
                    /\ Truthy(emailSearches[k].lastName)
                    /\ Truthy(emailSearches[k].company)
            /\ runner[j].pc \in {"lookup", "record", "progress", "delay"}
                    => singleSearchSchema(runner[j].contacts[runner[j].i])
            /\ runner[j].successful + Cardinality(InvalidContacts(j, runner[j].i))
                    <= Min({runner[j].i, Len(runner[j].contacts)})

C14_MoreRowsThanContacts ==
    \E j \in JobIds :
        /\ cleared = 0
        /\ batchJobs[j].status = "completed"
        /\ Len(getEmailSearchesByBatchId(j)) > batchJobs[j].totalRecords

\* C15: every step other than the bulk clear leaves each existing SearchRecord
\* in the store with all its fields as they were; a step only adds rows after
\* the existing ones.
C15_OnlyClearTouchesExistingRecords ==
    [][cleared' = cleared
        => /\ Len(emailSearches') >= Len(emailSearches)
           /\ \A k \in 1..Len(emailSearches) : emailSearches'[k] = emailSearches[k]]_vars

\* C15 witness: the store holds a found row and a later row of the same
\* batch, and nothing was cleared.
C15_Witness ==
    /\ cleared = 0
    /\ \E k, m \in 1..Len(emailSearches) :
          /\ k < m
          /\ emailSearches[k].status = "found"
          /\ emailSearches[m].batchId = emailSearches[k].batchId

\* the transport outcomes that are failures: everything but a 2xx response
\* whose body parses and has an email
FailureTransports == AllTransports \ {"ok_email"}

C17_OneRecordPerContact ==
    \A j \in JobIds :
        (batchJobs[j].status = "completed" /\ cleared = 0)
            => /\ Cardinality(RecordsOf(emailSearches, j)) = batchJobs[j].totalRecords
               /\ Cardinality(ErrorRecordsOf(emailSearches, j))
                    = Cardinality(InvalidContacts(j, Len(runner[j].contacts)))

\* C18: whenever the runner of a job is between two contacts (in the pacing
\* delay after contact i, or about to look up contact i+1, or past the last
\* contact i = N with the completion update issued), the persisted job has
\* processedRecords = i and successfulRecords = the number of lookups among
\* contacts 1..i that returned no error.
C18_ProgressPersistedAfterEveryContact ==
    \A j \in JobIds :
        LET r == runner[j]
            handled == IF r.pc = "delay" THEN r.i ELSE r.i - 1
        IN  (r.pc \in {"delay", "lookup", "final"} /\ handled >= 1)
                => /\ batchJobs[j].processedRecords = handled
                   /\ batchJobs[j].successfulRecords = r.successful

\* the outcome of a lookup carries an error: its error field is set
CarriesError(outcome) == outcome.error # undefined

\* C19: the runner is at the record write of the try branch only for a
\* shape-valid contact whose lookup has returned, and the step in which that
\* write returns adds one SearchRecord with searchType batch, the id of the
\* runner's job as batchId, and status not_found if the outcome of the lookup
\* carries an error and found otherwise; the step counts the contact as
\* processed, and as successful exactly when the outcome carries no error.
C19_ValidContactIsRecordedByOutcome ==
    [][\A j \in Jobs :
        /\ runner[j].pc = "record"
            => /\ singleSearchSchema(runner[j].contacts[runner[j].i])
               /\ runner[j].fetched # "none"
        /\ (runner[j].pc = "record" /\ runner'[j].pc = "progress")
            => LET outcome == runner[j].result
                   row == emailSearches'[Len(emailSearches')]
               IN  /\ Len(emailSearches') = Len(emailSearches) + 1
                   /\ row.searchType = "batch"
                   /\ row.batchId = batchJobs[j].id
                   /\ row.status = IF CarriesError(outcome) THEN "not_found" ELSE "found"
                   /\ runner'[j].processed = runner[j].processed + 1
                   /\ runner'[j].successful
                        = runner[j].successful + IF CarriesError(outcome) THEN 0 ELSE 1]_vars

\* the subject of a contact or of a SearchRecord, as the runner stores it
Subject(x) ==
    <<OrElse(x.firstName, "Unknown"), OrElse(x.lastName, "Unknown"),
      OrElse(x.company, "Unknown")>>

\* rows, in creation order, are records of contacts[p..limit] taken in
\* ascending position (a contact may have more than one row)
RECURSIVE InContactOrder(_, _, _, _)
InContactOrder(rows, contacts, p, limit) ==
    IF rows = <<>> THEN TRUE
    ELSE LET matches == {q \in p..limit : Subject(contacts[q]) = Subject(rows[1])}
         IN  /\ matches # {}
             /\ InContactOrder(Tail(rows), contacts, Min(matches), limit)

\* the SearchRecords of one batch, in creation order
CreatedFor(batchId) == SelectSeq(emailSearches, LAMBDA row : row.batchId = batchId)

\* C20: the SearchRecords of a job, taken in the order of their creation, are
\* records of the job's contacts in input order: no record of a contact is
\* created before a record of an earlier contact of the same job, and none
\* for a contact the runner has not reached yet.
C20_RecordsFollowContactOrder ==
    \A j \in JobIds :
        InContactOrder(CreatedFor(j), runner[j].contacts, 1,
                       Min({runner[j].i, Len(runner[j].contacts)}))

\* C20 witness: a job of two different contacts has its two records, the
\* record of the first contact created first.
C20_Witness ==
    \E j \in JobIds :
        /\ Len(runner[j].contacts) = 2
        /\ Subject(runner[j].contacts[1]) # Subject(runner[j].contacts[2])
        /\ Len(CreatedFor(j)) = 2
        /\ Subject(CreatedFor(j)[1]) = Subject(runner[j].contacts[1])
        /\ Subject(CreatedFor(j)[2]) = Subject(runner[j].contacts[2])

\* C20, second part: a record of a later job is created before a record of an
\* earlier job.
C20_JobsInterleave ==
    \E k, m \in 1..Len(emailSearches) :
        k < m /\ emailSearches[k].batchId > emailSearches[m].batchId

\* C21: in every reachable state, whichever Record Store is wired in, a
\* BatchJob with status completed has a completedAt that is not absent.
C21_CompletedJobHasCompletedAt ==
    \A j \in JobIds :
        batchJobs[j].status = "completed" => batchJobs[j].completedAt # null

\* C22: after every step, a BatchJob with status processing has no
\* completedAt, and a completedAt that was set before the step still has the
\* value it had, whatever updateBatchJob call the step was (with a status
\* field or without).
C22_CompletedAtSetExactlyOnce ==
    [][\A j \in 1..Len(batchJobs') :
        /\ batchJobs'[j].status = "processing" => batchJobs'[j].completedAt = null
        /\ (j \in JobIds /\ batchJobs[j].completedAt # null)
            => batchJobs'[j].completedAt = batchJobs[j].completedAt]_vars

\* C23: a step of the runner of job a leaves the BatchJob, the runner and the
\* SearchRecords of every other job b as they were, and a record it creates
\* carries the id of a; what a runner writes to its job are its own counters:
\* after a progress write and at the end the persisted counters of a job are
\* those its own runner has counted.
C23_JobsAreIsolated ==
    [][\A a \in Jobs :
        runner'[a] # runner[a]
            => /\ \A b \in Jobs \ {a} :
                    /\ batchJobs'[b] = batchJobs[b]
                    /\ runner'[b] = runner[b]
                    /\ CreatedFor(b)' = CreatedFor(b)
               /\ Len(emailSearches') > Len(emailSearches)
                    => emailSearches'[Len(emailSearches')].batchId = a
               /\ runner'[a].pc \in {"delay", "done"}
                    => /\ batchJobs'[a].processedRecords = runner'[a].processed
                       /\ batchJobs'[a].successfulRecords = runner'[a].successful]_vars

\* C23 witness: two jobs run interleaved: the runner of one has persisted the
\* progress of its first contact while the runner of the other, started and
\* waiting for its lookup, has persisted nothing.
C23_Witness ==
    \E a, b \in JobIds :
        /\ a # b
        /\ runner[a].pc = "delay"
        /\ batchJobs[a].processedRecords = 1
        /\ runner[b].pc = "lookup"
        /\ batchJobs[b].processedRecords = 0

\* C24: a rejected progress write for a contact that is not the last one does
\* not end the runner: the runner's step of the rejection leaves it inside the same
\* iteration (in its catch) with the BatchJob as it was, the catch's record
\* write then takes it on to the next contact, and a runner that has run to
\* its end has left the job with status completed.
C24_FailedProgressWriteDoesNotAbort ==
    [][\A j \in Jobs :
        /\ ( /\ runner[j].pc = "progress"
             /\ runner[j].i < Len(runner[j].contacts)
             /\ runner'[j] # runner[j]
             /\ failures' = failures + 1 )
           => /\ runner'[j].pc = "catch"
              /\ runner'[j].i = runner[j].i
              /\ batchJobs' = batchJobs
        /\ ( /\ runner[j].pc = "catch"
             /\ Len(emailSearches') = Len(emailSearches) + 1 )
           => /\ runner'[j].i = runner[j].i + 1
              /\ runner'[j].pc # "done"
        /\ runner'[j].pc = "done" => batchJobs'[j].status = "completed"]_vars

\* C24 witness: the progress write for the first of two contacts was the one
\* store operation that rejected (the contact has its lookup's row and then
\* the row of the catch), and the job has run to completion
C24_Witness ==
    \E j \in JobIds :
        /\ runner[j].pc = "done"
        /\ batchJobs[j].status = "completed"
        /\ batchJobs[j].totalRecords = 2
        /\ failures = 1
        /\ cleared = 0
        /\ Len(CreatedFor(j)) = 3
        /\ CreatedFor(j)[1].status # "error"
        /\ CreatedFor(j)[2].status = "error"
        /\ Subject(CreatedFor(j)[2]) = Subject(runner[j].contacts[1])
        /\ CreatedFor(j)[3].status # "error"

\* C25: a getBatchJob or updateBatchJob call whose id names no BatchJob
\* returns the absent value and leaves every stored BatchJob, SearchRecord
\* and ApiConfig as it was; in particular the update creates no job.
C25_UnknownIdIsAbsentAndChangesNothing ==
    [][( /\ returned'.op \in {"getBatchJob", "updateBatchJob"}
         /\ returned'.id \notin JobIds )
       => /\ returned'.value = absent
          /\ batchJobs' = batchJobs
          /\ emailSearches' = emailSearches
          /\ apiConfigs' = apiConfigs]_vars

\* C25 witness: updateBatchJob was called with an id that names no job of a
\* store that holds a job, a SearchRecord and an ApiConfig
C25_Witness ==
    /\ returned.op = "updateBatchJob"
    /\ returned.id \notin JobIds
    /\ batchJobs # <<>>
    /\ emailSearches # <<>>
    /\ apiConfigs # <<>>

\* the error messages the Lookup Client can return
OutcomeErrors == {findEmailWithGetProspect(t).error : t \in AllTransports}

\* C26: every SearchRecord, written by the single-search handler or by the
\* batch runner, has an errorMessage exactly when its status is not found: a
\* found row has none, a not_found row carries the error message of the
\* lookup outcome it was built from, an error row "Invalid contact data".
C26_ErrorMessageIffNotFound ==
    [][/\ \A k \in 1..Len(emailSearches') :
            LET row == emailSearches'[k]
            IN  /\ row.errorMessage \notin {null, undefined} <=> row.status # "found"
                /\ row.status = "error" => row.errorMessage = "Invalid contact data"
       /\ Len(emailSearches') = Len(emailSearches) + 1 =>
            LET row == emailSearches'[Len(emailSearches')]
            IN  row.status = "not_found" =>
                    IF row.searchType = "batch"
                    THEN row.errorMessage = runner[row.batchId].result.error
                    ELSE row.errorMessage \in OutcomeErrors]_vars

\* C26 witness: a single search has stored a not_found row with its message
\* and the runner has stored a row for its contact
C26_Witness ==
    \E k, l \in 1..Len(emailSearches) :
        /\ emailSearches[k].searchType = "single"
        /\ emailSearches[k].status = "not_found"
        /\ emailSearches[k].errorMessage = "No email found"
        /\ emailSearches[l].searchType = "batch"
        /\ emailSearches[l].status \in {"found", "error"}

\* C27: as long as the bulk clear has not run, the persisted processedRecords
\* of a job is at most the number of SearchRecords that carry its batchId, and
\* that number is at most the job's totalRecords.
C27_ProcessedAtMostRecordsAtMostTotal ==
    cleared = 0 =>
        \A j \in JobIds :
            /\ batchJobs[j].processedRecords <= Cardinality(RecordsOf(emailSearches, j))
            /\ Cardinality(RecordsOf(emailSearches, j)) <= batchJobs[j].totalRecords

\* C27, as far as it holds: with no rejected store operation either
C27_HoldsWithoutStoreFailures ==
    failures = 0 => C27_ProcessedAtMostRecordsAtMostTotal

\* C27, first half only: the progress never runs ahead of the records
C27_ProcessedAtMostRecords ==
    cleared = 0 =>
        \A j \in JobIds :
            batchJobs[j].processedRecords <= Cardinality(RecordsOf(emailSearches, j))

\* C28: a contact that passed shape validation is counted once and recorded
\* once even when a store write of its iteration rejects: the runner's count
\* never exceeds the number of contacts it has come to, and no row with status
\* error belongs to a contact that passes validation.
C28_ValidContactCountedAndRecordedOnce ==
    \A j \in JobIds :
        /\ runner[j].processed <= runner[j].i
        /\ \A k \in 1..Len(CreatedFor(j)) :
              CreatedFor(j)[k].status = "error"
                  => \E q \in 1..Len(runner[j].contacts) :
                        /\ ~singleSearchSchema(runner[j].contacts[q])
                        /\ Subject(runner[j].contacts[q]) = Subject(CreatedFor(j)[k])

\* C28, as far as it holds: with no rejected store operation
C28_HoldsWithoutStoreFailures ==
    failures = 0 => C28_ValidContactCountedAndRecordedOnce

\* C29: every lookup of a running batch is called with the API key that was
\* active when the batch was accepted, whatever saveApiConfig calls have run
\* since, and a step of a saveApiConfig call leaves every job, every runner and
\* every SearchRecord as they were.
C29_RunningBatchKeepsItsKey ==
    [][/\ \A j \in 1..Len(runner') :
            runner'[j].pc = "lookup" => runner'[j].sent.apiKey = runner'[j].apiKey
       /\ (apiConfigs' # apiConfigs \/ pendingSaves' # pendingSaves \/ nSaves' # nSaves)
            => /\ batchJobs' = batchJobs
               /\ runner' = runner
               /\ emailSearches' = emailSearches]_vars

\* C29 witness: a lookup of a batch was called with the key the batch was
\* accepted under while another key was the active one
C29_Witness ==
    \E j \in JobIds :
        /\ runner[j].sent.apiKey = runner[j].apiKey
        /\ runner[j].sent.whileActive # {}
        /\ runner[j].sent.apiKey \notin runner[j].sent.whileActive
        /\ runner[j].fetched # "none"

\* C30: every SearchRecord with status found has an email, and the runner's
\* count of successes never exceeds the number of the job's lookups that
\* returned an email, whatever the Lookup Client returned.
C30_FoundRecordHasEmail ==
    /\ \A k \in 1..Len(emailSearches) :
          emailSearches[k].status = "found" => emailSearches[k].email \notin {null, undefined}
    /\ \A j \in JobIds :
          cleared = 0 =>
              runner[j].successful
                  <= Cardinality({k \in RecordsOf(emailSearches, j) :
                                      emailSearches[k].email \notin {null, undefined}})

====
